---- MODULE Spec2Model ----
(***************************************************************************)
(* libcmd: fixed-layout binary messages, commands and the Handler that     *)
(* dispatches an incoming byte buffer to the command whose format ID       *)
(* equals the buffer's leading byte.                                       *)
(*                                                                         *)
(* The model follows include/handler.h (Handler::execute, UniqueIds,       *)
(* cmdId), include/message.h (Message), include/command.h (Command),       *)
(* include/communication.h (Communicator), include/result.h (Result) and   *)
(* the commands of tests/src/handler.test.cpp.                             *)
(***************************************************************************)
EXTENDS Integers, Sequences, FiniteSets, TLC

(* ------------------------------ bounds -------------------------------- *)

\* longest command list a Handler is instantiated with
MaxCmds == 3
\* longest input buffer handed to Handler::execute
MaxLen == 5
\* most frames a user-written execute() sends before it returns or throws
MaxResp == 2
\* most serialize() calls made on one message
MaxSer == 2
\* the calls of a session of dispatches, after the first
MaxCalls == 2
\* the threads that call Handler::execute at the same time
MaxThreads == 2
\* the fields of a format besides id
MaxFields == 2

(* ------------------------- program constants -------------------------- *)

FormatA_ID == 1
FormatB_ID == 2
FormatC_ID == 3
NonTrivialFormat_ID == 119
ResponseFormat_ID == 144
UNKNOWN_ID == 127

ERROR_ID_NOT_FOUND == 1
ERROR_MESSAGE_LENGTH_ERROR == 2
ERROR_EXCEPTION_DURING_EXECUTION == 3
ERROR_EMPTY_MESSAGE == 4

(* ----------------------------- byte images ---------------------------- *)

\* a field layout is the sequence of its fields' widths in bytes; the layouts
\* below have no padding (1+1+2, and 1+2 packed), so sizeof is the sum of the
\* widths
RECURSIVE SizeOf(_)
SizeOf(layout) ==
    IF layout = <<>> THEN 0 ELSE Head(layout) + SizeOf(Tail(layout))

\* the value of a run of bytes read most significant byte first
RECURSIVE BeValue(_)
BeValue(bytes) ==
    IF bytes = <<>> THEN 0
    ELSE bytes[Len(bytes)]
         + 256 * BeValue(SubSeq(bytes, 1, Len(bytes) - 1))

\* the little-endian value of a run of bytes
RECURSIVE LeValue(_)
LeValue(bytes) ==
    IF bytes = <<>> THEN 0 ELSE Head(bytes) + 256 * LeValue(Tail(bytes))

\* the bytes of a value written most significant byte first
RECURSIVE BeBytes(_, _)
BeBytes(v, width) ==
    IF width = 0 THEN <<>> ELSE BeBytes(v \div 256, width - 1) \o <<v % 256>>

\* the little-endian bytes of a value of the given width
RECURSIVE LeBytes(_, _)
LeBytes(v, width) ==
    IF width = 0 THEN <<>> ELSE <<v % 256>> \o LeBytes(v \div 256, width - 1)

\* std::memcpy(&_content, content.data(), sizeof(MessageFormat)): the fields
\* of the struct read from its byte image
RECURSIVE Memcpy(_, _)
Memcpy(layout, bytes) ==
    IF layout = <<>> THEN <<>>
    ELSE <<LeValue(SubSeq(bytes, 1, Head(layout)))>>
         \o Memcpy(Tail(layout), SubSeq(bytes, Head(layout) + 1, Len(bytes)))

\* Message::serialize: the byte image of the stored fields
RECURSIVE Serialize(_, _)
Serialize(layout, content) ==
    IF layout = <<>> THEN <<>>
    ELSE LeBytes(Head(content), Head(layout))
         \o Serialize(Tail(layout), Tail(content))

\* a conversion to 16 bits that saturates and does not wrap
U16Saturating(x) == IF x > 65535 THEN 65535 ELSE x

\* static_cast<std::uint16_t>(x)
U16(x) == x % 65536

\* x ^ 0x00FFu on a 16-bit value: the low byte is complemented
Xor00FF(x) == (x \div 256) * 256 + (255 - (x % 256))

(* ------------------------------ formats ------------------------------- *)

\* struct FormatA/FormatB/FormatC { u8 id; u8 op; u16 val; }
WordFormat == <<1, 1, 2>>
\* struct NonTrivialFormat { u8 id; u16 len; } packed
NonTrivialFormat == <<1, 2>>
\* struct ResponseFormat { u8 id; u8 status; u16 result; }
ResponseFormat == <<1, 1, 2>>

(* ------------------------------ commands ------------------------------ *)

CommandA == [name |-> "CommandA", ID |-> FormatA_ID, format |-> WordFormat]
CommandB == [name |-> "CommandB", ID |-> FormatB_ID, format |-> WordFormat]
CommandC == [name |-> "CommandC", ID |-> FormatC_ID, format |-> WordFormat]
CommandADuplicate ==
    [name |-> "CommandADuplicate", ID |-> FormatA_ID, format |-> WordFormat]
\* a command written by the library's user: Command::execute is pure virtual,
\* so its constructor body and its execute() may do anything
UserCommand ==
    [name |-> "UserCommand", ID |-> NonTrivialFormat_ID,
     format |-> NonTrivialFormat]

Commands == {CommandA, CommandB, CommandC, CommandADuplicate, UserCommand}
CommandNames == {c.name : c \in Commands}

(* ----------------------------- exceptions ----------------------------- *)

NoException == [type |-> "none", what |-> ""]
\* thrown by Message's byte constructor on a buffer of the wrong length
MessageLengthError ==
    [type |-> "MessageLengthError", what |-> "Invalid content size"]
\* thrown by ReceivedMessage's byte constructor on a wrong leading byte
MessageWrongIdError ==
    [type |-> "MessageWrongIdError", what |-> "Invalid message ID"]
\* any other exception derived from std::exception
StdException == [type |-> "std::exception", what |-> "command failed"]
\* a thrown value that is no std::exception (throw 42;)
NonStdException == [type |-> "non-std", what |-> ""]

Exceptions ==
    {MessageLengthError, MessageWrongIdError, StdException, NonStdException}

\* whether catch (const std::exception&) takes the exception: the two message
\* errors are std::runtime_errors
IsStdException(e) ==
    e.type \in {"MessageLengthError", "MessageWrongIdError", "std::exception"}

(* ---------------------- Message / ReceivedMessage --------------------- *)

\* whether the in-flight outcome of a constructor is a thrown exception
Threw(r) == r.exc # NoException

\* a size test that rejects only the buffers that are too short
SizeTooShort(layout, bytes) == Len(bytes) < SizeOf(layout)

\* the size test of Message's byte constructor
SizeMismatch(layout, bytes) == Len(bytes) # SizeOf(layout)

\* Message(const std::vector<std::uint8_t>&): the length check, then memcpy
MessageCtor(layout, bytes) ==
    IF SizeMismatch(layout, bytes)
    THEN [exc |-> MessageLengthError, content |-> <<>>]
    ELSE [exc |-> NoException, content |-> Memcpy(layout, bytes)]

\* ReceivedMessage's byte constructor without the ID check
ReceivedMessageCtorNoIdCheck(layout, ID, bytes) == MessageCtor(layout, bytes)

\* ReceivedMessage's byte constructor testing the leading byte first
ReceivedMessageCtorIdFirst(layout, ID, bytes) ==
    IF bytes # <<>> /\ bytes[1] # ID
    THEN [exc |-> MessageWrongIdError, content |-> <<>>]
    ELSE MessageCtor(layout, bytes)

\* ReceivedMessage(const std::vector<std::uint8_t>&): the base constructor,
\* then the check of the decoded id field against the format's ID
ReceivedMessageCtor(layout, ID, bytes) ==
    LET base == MessageCtor(layout, bytes) IN
    IF Threw(base) THEN base
    ELSE IF base.content[1] # ID
         THEN [exc |-> MessageWrongIdError, content |-> <<>>]
         ELSE base

\* Command(const std::vector<std::uint8_t>&) delegates to ReceivedMessage
CommandCtor(C, bytes) == ReceivedMessageCtor(C.format, C.ID, bytes)

(* ------------------------------- Result ------------------------------- *)

\* Result<void, E>: _is_ok and the optional _error (empty or one element)
Ok == [is_ok |-> TRUE, error |-> <<>>]
\* the error constructor setting _is_ok
UnexpectedAsOk(e) == [is_ok |-> TRUE, error |-> <<e>>]
Unexpected(e) == [is_ok |-> FALSE, error |-> <<e>>]

HandlerExecuteError(code, msg) == [code |-> code, msg |-> msg]

Digit == <<"0", "1", "2", "3", "4", "5", "6", "7", "8", "9">>

\* std::to_string of an unsigned value
RECURSIVE to_string(_)
to_string(n) ==
    IF n < 10 THEN Digit[n + 1]
    ELSE to_string(n \div 10) \o Digit[(n % 10) + 1]

(* ------------------------------ Handler ------------------------------- *)

\* command_helpers::cmdId<C>()
cmdId(C) == C.ID

\* UniqueIds comparing each ID with its successor only
RECURSIVE UniqueIdsAdjacent(_)
UniqueIdsAdjacent(cs) ==
    IF Len(cs) < 2 THEN TRUE
    ELSE cs[1].ID # cs[2].ID /\ UniqueIdsAdjacent(Tail(cs))

\* UniqueIds comparing the first ID with the later ones and going no further
UniqueIdsFirstOnly(cs) ==
    cs = <<>> \/ \A k \in 2..Len(cs) : cs[1].ID # cs[k].ID

\* UniqueIds without its base case: no commands is false
UniqueIdsNonEmpty(cs) ==
    /\ cs # <<>>
    /\ \A i, j \in 1..Len(cs) : i # j => cs[i].ID # cs[j].ID

\* command_helpers::UniqueIds<C, Rest...>: the first ID differs from every
\* later one, and the rest is unique; no commands: true
RECURSIVE UniqueIds(_)
UniqueIds(cs) ==
    IF cs = <<>> THEN TRUE
    ELSE /\ \A k \in 2..Len(cs) : cmdId(cs[1]) # cmdId(cs[k])
         /\ UniqueIds(Tail(cs))

\* the emptiness test left out
IsEmptyNever(bytes) == FALSE

\* data.empty()
IsEmpty(bytes) == Len(bytes) = 0

\* the ID comparison written with >= for ==
IdMatchesLoose(id, C) == id >= C.ID

\* the fold constructing a command whatever the leading byte is
IdMatchesAlways(id, C) == TRUE

\* id == command_helpers::cmdId<Commands>()
IdMatches(id, C) == id = cmdId(C)

\* the error Handler::execute returns for an empty buffer
EmptyMessageError ==
    HandlerExecuteError(ERROR_EMPTY_MESSAGE, "Empty message received")

\* the error Handler::execute returns when the fold matched no command
IdNotFoundError(id) ==
    HandlerExecuteError(ERROR_ID_NOT_FOUND,
                        "Unknown command ID: " \o to_string(id))

\* the catch clauses without the one for MessageLengthError
CatchClauseNoLength(e) ==
    IF e.type \in {"MessageLengthError", "MessageWrongIdError", "std::exception"}
    THEN [code |-> ERROR_EXCEPTION_DURING_EXECUTION, msg |-> e.what]
    ELSE [code |-> ERROR_EXCEPTION_DURING_EXECUTION,
          msg |-> "Unknown exception"]

\* the three catch clauses of Handler::execute, tried in order
CatchClause(e) ==
    IF e.type = "MessageLengthError"
    THEN HandlerExecuteError(ERROR_MESSAGE_LENGTH_ERROR, e.what)
    ELSE IF IsStdException(e)
         THEN HandlerExecuteError(ERROR_EXCEPTION_DURING_EXECUTION, e.what)
         ELSE HandlerExecuteError(ERROR_EXCEPTION_DURING_EXECUTION,
                                  "Unknown exception")

(* --------------------------- command bodies --------------------------- *)

\* what the body of the derived constructor may throw after the base
\* constructor returned: the test commands only count themselves
DerivedCtorThrows(C) ==
    IF C.name = "UserCommand" THEN {NoException} \cup Exceptions
    ELSE {NoException}

\* the response of the test commands: SentMessage(r).serialize()
ResponseFrame(status, result) ==
    Serialize(ResponseFormat, <<ResponseFormat_ID, status, result>>)

\* the frames a user-written execute() sends, in order
UserFrames(n) == [k \in 1..n |-> <<NonTrivialFormat_ID, k>>]

\* Command::execute: the frames handed to communicator.respond, in order, and
\* the exception thrown after them (none when execute returns)
ExecutePlans(C, content) ==
    IF C.name = "CommandA"
    THEN {[frames |-> <<ResponseFrame(content[2], U16(content[3] + 1))>>,
           throw |-> NoException]}
    ELSE IF C.name = "CommandB"
    THEN {[frames |-> <<ResponseFrame(content[2], U16(Xor00FF(content[3])))>>,
           throw |-> NoException]}
    ELSE IF C.name = "CommandC"
    THEN {[frames |-> <<ResponseFrame(content[2], U16(content[3]))>>,
           throw |-> NoException]}
    ELSE IF C.name = "CommandADuplicate"
    THEN {[frames |-> <<ResponseFrame(0, 0)>>, throw |-> NoException]}
    ELSE {[frames |-> UserFrames(n), throw |-> e] :
             n \in 0..MaxResp, e \in {NoException} \cup Exceptions}

NoPlan == [frames |-> <<>>, throw |-> NoException]

(* ------------------------------- inputs ------------------------------- *)

LeadBytes ==
    {FormatA_ID, FormatB_ID, FormatC_ID, NonTrivialFormat_ID, UNKNOWN_ID}
PayloadBytes == {0, 255}

\* the payloads of n bytes: the bytes that a format can hold vary, the bytes
\* of an over-long buffer beyond the longest format are zero
Payloads(n) ==
    LET held == SizeOf(WordFormat) - 1 IN
    IF n <= held THEN [1..n -> PayloadBytes]
    ELSE {p \o [k \in 1..(n - held) |-> 0] : p \in [1..held -> PayloadBytes]}

\* the buffers handed to Handler::execute: the empty one, and a leading byte
\* followed by a payload
Buffers ==
    {<<>>} \cup UNION {{<<l>> \o p : l \in LeadBytes, p \in Payloads(n - 1)} :
                       n \in 1..MaxLen}

\* the command lists a Handler may be written with
CommandLists == UNION {[1..n -> Commands] : n \in 0..MaxCmds}

(* -------------------------------- state ------------------------------- *)

VARIABLES
    cmds,        \* Handler<Commands...>: the command list of the handler
    pc,          \* where the handler is: template, rejected, idle, or a step
                 \* of Handler::execute (entry, fold, ctor, exec, respond, catch)
    data,        \* the buffer of the current call
    idx,         \* the position of the fold expression in the command list
    content,     \* _content of the command under construction or execution
    plan,        \* what the running execute() does
    sent,        \* how many frames of the plan were handed to respond
    exc,         \* the exception in flight
    responses,   \* TestCommunicator::responses of the call's communicator
    attempted,   \* per command: constructor calls made in this call
    constructed, \* per command: the test counters constructed_a/b/c
    executed,    \* execute() invocations made in this call
    result       \* the Result returned by the last call: empty or one element

VARIABLES
    fmt,         \* the format F of the message object under test
    message,     \* the Message<F> object: empty, or one record (kind, content)
    source,      \* what the caller built the message from: the format value
                 \* (SentMessage) or the byte buffer (ReceivedMessage)
    captured,    \* what the constructor was given, as it was at that moment:
                 \* the format value or the byte buffer
    thrown,      \* the exception the last message constructor threw
    heap,        \* the vectors serialize() returned, which the caller owns
    last,        \* the vector the latest serialize() returned (0: none yet)
    fresh,       \* no returned vector was written since the latest serialize()
    view,        \* what the latest content() showed: empty, or one value
    trip,        \* the outcome of the latest serialize-and-construct round trip
    res,         \* the Result object under test: empty, or one Result
    access,      \* the latest accessor call on res and what it did
    history,     \* what a caller saw of its earlier Handler::execute calls,
                 \* in order: the buffer, the Result and the response frames
    threads,     \* per thread: the Handler::execute call the thread runs
    candidate,   \* the format type handed to the MessageFormatT concept
    verdict,     \* what the build made of the candidate
    rq           \* a Communicator::request call with a response list

\* the variables of Handler::execute
hvars == <<cmds, pc, data, idx, content, plan, sent, exc, responses,
           attempted, constructed, executed, result>>
\* the variables of the message object
mvars == <<fmt, message, source, captured, thrown, heap, last, fresh, view,
           trip>>
\* the variables of the Result object
rvars == <<res, access>>
\* the objects a Handler::execute call does not touch
\* the variables of a caller's session, of the threads, of the format
\* validation and of a request
evars == <<history, threads, candidate, verdict, rq>>
objvars == <<mvars, rvars, evars>>

vars == <<hvars, mvars, rvars, evars>>

\* no accessor of the Result was called
NoAccess ==
    [op |-> "none", asserted |-> TRUE, got |-> <<>>, end |-> "none"]

Zero == [n \in CommandNames |-> 0]

Dispatching == {"entry", "fold", "ctor", "exec", "respond", "catch"}

\* no message object exists
NoMessage ==
    /\ fmt = [ID |-> FormatA_ID, layout |-> WordFormat]
    /\ message = <<>>
    /\ source = <<>>
    /\ captured = <<>>
    /\ thrown = NoException
    /\ heap = <<>>
    /\ last = 0
    /\ fresh = FALSE
    /\ view = <<>>
    /\ trip = <<>>

\* no Result object exists
NoResult ==
    /\ res = <<>>
    /\ access = NoAccess

\* no session was recorded, no thread runs, no format is under validation
\* and no request is made
NoOthers ==
    /\ history = <<>>
    /\ threads = <<>>
    /\ candidate = <<>>
    /\ verdict = "none"
    /\ rq = <<>>

\* no handler is written and no call is made
HandlerIdle ==
    /\ cmds = <<>>
    /\ pc = "template"
    /\ data = <<>>
    /\ idx = 0
    /\ content = <<>>
    /\ plan = NoPlan
    /\ sent = 0
    /\ exc = NoException
    /\ responses = <<>>
    /\ attempted = Zero
    /\ constructed = Zero
    /\ executed = 0
    /\ result = <<>>

Init ==
    /\ cmds \in CommandLists
    /\ pc = "template"
    /\ data = <<>>
    /\ idx = 0
    /\ content = <<>>
    /\ plan = NoPlan
    /\ sent = 0
    /\ exc = NoException
    /\ responses = <<>>
    /\ attempted = Zero
    /\ constructed = Zero
    /\ executed = 0
    /\ result = <<>>
    /\ NoMessage
    /\ NoResult
    /\ NoOthers

\* the handler without its static_assert
InstantiateUnchecked ==
    /\ pc = "template"
    /\ pc' = "idle"
    /\ UNCHANGED <<cmds, data, idx, content, plan, sent, exc, responses,
                   attempted, constructed, executed, result>>
    /\ UNCHANGED objvars

\* static_assert(UniqueIds<Commands...>::value): a handler with a duplicate
\* ID does not compile, so no call on it exists
Instantiate ==
    /\ pc = "template"
    /\ pc' = IF UniqueIds(cmds) THEN "idle" ELSE "rejected"
    /\ UNCHANGED <<cmds, data, idx, content, plan, sent, exc, responses,
                   attempted, constructed, executed, result>>
    /\ UNCHANGED objvars

\* a caller resets the counters, makes a communicator and calls
\* Handler::execute(data, communicator)
Call(b) ==
    /\ pc = "idle"
    /\ pc' = "entry"
    /\ data' = b
    /\ idx' = 0
    /\ content' = <<>>
    /\ plan' = NoPlan
    /\ sent' = 0
    /\ exc' = NoException
    /\ responses' = <<>>
    /\ attempted' = Zero
    /\ constructed' = Zero
    /\ executed' = 0
    /\ result' = <<>>
    /\ UNCHANGED cmds
    /\ UNCHANGED objvars

\* return r; from Handler::execute
Return(r) ==
    /\ result' = <<r>>
    /\ pc' = "idle"

\* if (data.empty()) return unexpected(...); const std::uint8_t id = data.front();
Entry ==
    /\ pc = "entry"
    /\ IF IsEmpty(data)
       THEN /\ Return(Unexpected(EmptyMessageError))
            /\ UNCHANGED idx
       ELSE /\ idx' = 1
            /\ pc' = "fold"
            /\ UNCHANGED result
    /\ UNCHANGED <<cmds, data, content, plan, sent, exc, responses,
                   attempted, constructed, executed>>
    /\ UNCHANGED objvars

\* the fold leaving out its last operand
FoldSkipsLast ==
    /\ pc = "fold"
    /\ IF idx >= Len(cmds)
       THEN /\ result' = <<[is_ok |-> FALSE,
                            error |-> <<[code |-> ERROR_ID_NOT_FOUND,
                                         msg |-> "Unknown command ID"]>>]>>
            /\ pc' = "idle"
            /\ UNCHANGED idx
       ELSE IF data[1] = cmds[idx].ID
            THEN /\ pc' = "ctor"
                 /\ UNCHANGED <<idx, result>>
            ELSE /\ idx' = idx + 1
                 /\ UNCHANGED <<pc, result>>
    /\ UNCHANGED <<cmds, data, content, plan, sent, exc, responses,
                   attempted, constructed, executed>>
    /\ UNCHANGED objvars

\* one operand of the fold ((id == cmdId<Commands>() && ...) || ...): past
\* the last operand matched is false
Fold ==
    /\ pc = "fold"
    /\ IF idx > Len(cmds)
       THEN /\ Return(Unexpected(IdNotFoundError(data[1])))
            /\ UNCHANGED idx
       ELSE IF IdMatches(data[1], cmds[idx])
            THEN /\ pc' = "ctor"
                 /\ UNCHANGED <<idx, result>>
            ELSE /\ idx' = idx + 1
                 /\ UNCHANGED <<pc, result>>
    /\ UNCHANGED <<cmds, data, content, plan, sent, exc, responses,
                   attempted, constructed, executed>>
    /\ UNCHANGED objvars

\* Commands{data}: the base constructors, then the derived constructor's body
Construct ==
    /\ pc = "ctor"
    /\ LET C == cmds[idx]
           base == CommandCtor(C, data)
       IN  /\ attempted' = [attempted EXCEPT ![C.name] = @ + 1]
           /\ IF Threw(base)
              THEN /\ exc' = base.exc
                   /\ pc' = "catch"
                   /\ UNCHANGED <<content, constructed>>
              ELSE \E e \in DerivedCtorThrows(C) :
                      IF e = NoException
                      THEN /\ content' = base.content
                           /\ constructed' =
                                  [constructed EXCEPT ![C.name] = @ + 1]
                           /\ pc' = "exec"
                           /\ UNCHANGED exc
                      ELSE /\ exc' = e
                           /\ pc' = "catch"
                           /\ UNCHANGED <<content, constructed>>
    /\ UNCHANGED <<cmds, data, idx, plan, sent, responses, executed, result>>
    /\ UNCHANGED objvars

\* an execute() whose answer counts the instances made so far
ExecuteBeginCounting ==
    /\ pc = "exec"
    /\ executed' = executed + 1
    /\ LET made == constructed[cmds[idx].name]
           seen == IF Len(content) = 3
                   THEN [content EXCEPT ![3] = U16(@ + made - 1)]
                   ELSE content
       IN  \E p \in ExecutePlans(cmds[idx], seen) : plan' = p
    /\ sent' = 0
    /\ pc' = "respond"
    /\ UNCHANGED <<cmds, data, idx, content, exc, responses, attempted,
                   constructed, result>>
    /\ UNCHANGED objvars

\* .execute(communicator) is entered
ExecuteBegin ==
    /\ pc = "exec"
    /\ executed' = executed + 1
    /\ \E p \in ExecutePlans(cmds[idx], content) : plan' = p
    /\ sent' = 0
    /\ pc' = "respond"
    /\ UNCHANGED <<cmds, data, idx, content, exc, responses, attempted,
                   constructed, result>>
    /\ UNCHANGED objvars

\* communicator.respond(frame): TestCommunicator appends the frame
Respond ==
    /\ pc = "respond"
    /\ sent < Len(plan.frames)
    /\ responses' = Append(responses, plan.frames[sent + 1])
    /\ sent' = sent + 1
    /\ UNCHANGED <<cmds, pc, data, idx, content, plan, exc, attempted,
                   constructed, executed, result>>
    /\ UNCHANGED objvars

\* a return that does not wait for the frames execute() still has to send
ExecuteEndEarly ==
    /\ pc = "respond"
    /\ sent <= Len(plan.frames)
    /\ IF plan.throw = NoException
       THEN /\ result' = <<[is_ok |-> TRUE, error |-> <<>>]>>
            /\ pc' = "idle"
            /\ UNCHANGED exc
       ELSE /\ exc' = plan.throw
            /\ pc' = "catch"
            /\ UNCHANGED result
    /\ UNCHANGED <<cmds, data, idx, content, plan, sent, responses,
                   attempted, constructed, executed>>
    /\ UNCHANGED objvars

\* execute() returns, so the fold is true and Handler::execute returns {},
\* or execute() throws
ExecuteEnd ==
    /\ pc = "respond"
    /\ sent = Len(plan.frames)
    /\ IF plan.throw = NoException
       THEN /\ Return(Ok)
            /\ UNCHANGED exc
       ELSE /\ exc' = plan.throw
            /\ pc' = "catch"
            /\ UNCHANGED result
    /\ UNCHANGED <<cmds, data, idx, content, plan, sent, responses,
                   attempted, constructed, executed>>
    /\ UNCHANGED objvars

\* catch clauses that construct the command a second time before giving up
CatchRetriesOnce ==
    /\ pc = "catch"
    /\ IF \A n \in CommandNames : attempted[n] < 2
       THEN /\ pc' = "ctor"
            /\ UNCHANGED result
       ELSE Return(Unexpected(CatchClause(exc)))
    /\ UNCHANGED <<cmds, data, idx, content, plan, sent, exc, responses,
                   attempted, constructed, executed>>
    /\ UNCHANGED objvars

\* the catch clauses: return unexpected(HandlerExecuteError{...})
Catch ==
    /\ pc = "catch"
    /\ Return(Unexpected(CatchClause(exc)))
    /\ UNCHANGED <<cmds, data, idx, content, plan, sent, exc, responses,
                   attempted, constructed, executed>>
    /\ UNCHANGED objvars

Step == Entry \/ Fold \/ Construct \/ ExecuteBegin \/ Respond \/ ExecuteEnd
        \/ Catch

Next ==
    \/ Instantiate
    \/ \E b \in Buffers : Call(b)
    \/ Entry
    \/ Fold
    \/ Construct
    \/ ExecuteBegin
    \/ Respond
    \/ ExecuteEnd
    \/ Catch

Spec == Init /\ [][Next]_vars

\* Handler::execute is synchronous: a call that was entered runs on
FairSpec == Spec /\ WF_vars(Step)

(* ------------------- Handler::execute as one function ----------------- *)

\* the fold's left-to-right evaluation: the position of the first command
\* whose ID equals id, 0 when the fold is false
RECURSIVE FirstMatch(_, _, _)
FirstMatch(cs, id, k) ==
    IF k > Len(cs) THEN 0
    ELSE IF IdMatches(id, cs[k]) THEN k
    ELSE FirstMatch(cs, id, k + 1)

\* Handler<cs...>::execute(d, communicator) from entry to return, where the
\* user-written constructor body throws userCtor (or nothing) and the
\* user-written execute() follows userPlan: the command selected, the
\* Result and the frames the communicator received
HandlerExecute(cs, d, userCtor, userPlan) ==
    IF IsEmpty(d)
    THEN [selected |-> "none", result |-> Unexpected(EmptyMessageError),
          responses |-> <<>>]
    ELSE LET k == FirstMatch(cs, d[1], 1) IN
         IF k = 0
         THEN [selected |-> "none",
               result |-> Unexpected(IdNotFoundError(d[1])),
               responses |-> <<>>]
         ELSE LET C == cs[k]
                  base == CommandCtor(C, d)
                  body == IF C.name = "UserCommand" THEN userCtor
                          ELSE NoException
              IN  IF Threw(base)
                  THEN [selected |-> C.name,
                        result |-> Unexpected(CatchClause(base.exc)),
                        responses |-> <<>>]
                  ELSE IF body # NoException
                  THEN [selected |-> C.name,
                        result |-> Unexpected(CatchClause(body)),
                        responses |-> <<>>]
                  ELSE LET p == IF C.name = "UserCommand" THEN userPlan
                                ELSE CHOOSE q \in ExecutePlans(C, base.content) :
                                         TRUE
                       IN  [selected |-> C.name,
                            result |-> IF p.throw = NoException THEN Ok
                                       ELSE Unexpected(CatchClause(p.throw)),
                            responses |-> p.frames]

\* the command list cs reordered by the permutation f of its positions
Permuted(cs, f) == [k \in 1..Len(cs) |-> cs[f[k]]]

(* --------------------------- message objects -------------------------- *)

\* the formats a message object is made of: those of the test command and
\* of the user-written command
Formats == {[ID |-> C.ID, layout |-> C.format] : C \in {CommandA, UserCommand}}

\* the largest value a field of the given width holds
RECURSIVE MaxValue(_)
MaxValue(width) == IF width = 0 THEN 0 ELSE 256 * MaxValue(width - 1) + 255

\* the bytes a field is filled from
FieldBytes == {0, 16, 255}

\* the values a field of the given width takes: every mix of the field bytes
FieldValues(width) == {LeValue(bs) : bs \in [1..width -> FieldBytes]}

\* the values of the fields after id
RECURSIVE RestValues(_)
RestValues(layout) ==
    IF layout = <<>> THEN {<<>>}
    ELSE {<<v>> \o r : v \in FieldValues(Head(layout)),
                       r \in RestValues(Tail(layout))}

\* the ids a value or a buffer is led by: the format's own and the next one
Ids(F) == {F.ID, (F.ID + 1) % 256}

\* the format values a SentMessage is built from
FormatValues(F) ==
    {<<i>> \o r : i \in Ids(F), r \in RestValues(Tail(F.layout))}

\* the byte buffers a ReceivedMessage is built from: every length from the
\* empty buffer to MaxLen
MessageBuffers(F) ==
    {<<>>} \cup UNION {{<<i>> \o p : i \in Ids(F), p \in Payloads(n - 1)} :
                       n \in 1..MaxLen}

\* toBytes(obj): the memory image of a format value
toBytes(layout, v) == Serialize(layout, v)

\* a message constructor left the object in place
Built(kind, c, given) ==
    /\ message' = <<[kind |-> kind, content |-> c]>>
    /\ captured' = given
    /\ thrown' = NoException

\* a message constructor threw: no object exists
NotBuilt(e) ==
    /\ message' = <<>>
    /\ captured' = <<>>
    /\ thrown' = e

\* const SentMessage msg(p): Message(MessageFormat content) moves its
\* by-value parameter into _content
SentMessageCtor(v) ==
    /\ message = <<>>
    /\ thrown = NoException
    /\ source = <<>>
    /\ source' = v
    /\ Built("sent", v, v)
    /\ UNCHANGED <<fmt, heap, last, fresh, view, trip>>
    /\ UNCHANGED <<hvars, rvars, evars>>

\* const ReceivedMessage<F> msg(raw)
ReceivedMessageNew(b) ==
    /\ message = <<>>
    /\ thrown = NoException
    /\ source = <<>>
    /\ source' = b
    /\ LET r == ReceivedMessageCtor(fmt.layout, fmt.ID, b)
       IN  IF Threw(r) THEN NotBuilt(r.exc)
           ELSE Built("received", r.content, b)
    /\ UNCHANGED <<fmt, heap, last, fresh, view, trip>>
    /\ UNCHANGED <<hvars, rvars, evars>>

\* serialize() handing out the vector of an earlier call again
SerializeShared ==
    /\ message # <<>>
    /\ IF heap = <<>>
       THEN /\ heap' = <<Serialize(fmt.layout, message[1].content)>>
            /\ last' = 1
       ELSE /\ last' = 1
            /\ UNCHANGED heap
    /\ fresh' = TRUE
    /\ UNCHANGED <<fmt, message, source, captured, thrown, view, trip>>
    /\ UNCHANGED <<hvars, rvars, evars>>

\* msg.serialize(): a new vector built from the bytes of _content
SerializeCall ==
    /\ message # <<>>
    /\ Len(heap) < MaxSer
    /\ heap' = Append(heap, Serialize(fmt.layout, message[1].content))
    /\ last' = Len(heap) + 1
    /\ fresh' = TRUE
    /\ UNCHANGED <<fmt, message, source, captured, thrown, view, trip>>
    /\ UNCHANGED <<hvars, rvars, evars>>

\* msg.content(): a const reference to _content
ContentCall ==
    /\ message # <<>>
    /\ view' = <<message[1].content>>
    /\ UNCHANGED <<fmt, message, source, captured, thrown, heap, last, fresh,
                   trip>>
    /\ UNCHANGED <<hvars, rvars, evars>>

\* x ^= 0xFF on one byte
XorFF(x) == 255 - x

\* the complement of a field of the given width
Complement(v, width) == MaxValue(width) - v

\* the places of a sequence the caller writes to: its first and its last
Ends(s) == {1, Len(s)} \cap (1..Len(s))

\* bytes[i] ^= 0xFF on a vector serialize() returned
MutateReturned(k, i) ==
    /\ k \in 1..Len(heap)
    /\ i \in Ends(heap[k])
    /\ heap' = [heap EXCEPT ![k][i] = XorFF(@)]
    /\ fresh' = FALSE
    /\ UNCHANGED <<fmt, message, source, captured, thrown, last, view, trip>>
    /\ UNCHANGED <<hvars, rvars, evars>>

\* the caller's source after a write to its place i: p.data[0] = 0xFF on the
\* format value, or a byte of the raw buffer
Written(i) ==
    IF message[1].kind = "sent"
    THEN [source EXCEPT ![i] = Complement(@, fmt.layout[i])]
    ELSE [source EXCEPT ![i] = XorFF(@)]

\* a message that refers to the caller's source and holds no copy of it
MutateSourceAliased(i) ==
    /\ message # <<>>
    /\ i \in Ends(source)
    /\ source' = Written(i)
    /\ message' = <<[message[1] EXCEPT
                        !.content = IF message[1].kind = "sent" THEN source'
                                    ELSE Memcpy(fmt.layout, source')]>>
    /\ UNCHANGED <<fmt, captured, thrown, heap, last, fresh, view, trip>>
    /\ UNCHANGED <<hvars, rvars, evars>>

\* the caller writes to what the message was built from; the message holds
\* its own copy (_content is a member, filled by move or by memcpy)
MutateSource(i) ==
    /\ message # <<>>
    /\ i \in Ends(source)
    /\ source' = Written(i)
    /\ UNCHANGED <<fmt, message, captured, thrown, heap, last, fresh, view,
                   trip>>
    /\ UNCHANGED <<hvars, rvars, evars>>

\* ReceivedMessage<F>(SentMessage<F>(v).serialize()) on the value the message
\* holds: the wire image is parsed back
RoundTrip ==
    /\ message # <<>>
    /\ trip = <<>>
    /\ trip' = <<ReceivedMessageCtor(fmt.layout, fmt.ID,
                                     Serialize(fmt.layout, message[1].content))>>
    /\ UNCHANGED <<fmt, message, source, captured, thrown, heap, last, fresh,
                   view>>
    /\ UNCHANGED <<hvars, rvars, evars>>

MessageInit ==
    /\ HandlerIdle
    /\ NoResult
    /\ NoOthers
    /\ fmt \in Formats
    /\ message = <<>>
    /\ source = <<>>
    /\ captured = <<>>
    /\ thrown = NoException
    /\ heap = <<>>
    /\ last = 0
    /\ fresh = FALSE
    /\ view = <<>>
    /\ trip = <<>>

MessageNext ==
    \/ \E v \in FormatValues(fmt) : SentMessageCtor(v)
    \/ \E b \in MessageBuffers(fmt) : ReceivedMessageNew(b)
    \/ SerializeCall
    \/ ContentCall
    \/ \E k \in 1..MaxSer, i \in 1..MaxLen : MutateReturned(k, i)
    \/ \E i \in 1..MaxLen : MutateSource(i)
    \/ RoundTrip

MessageSpec == MessageInit /\ [][MessageNext]_vars

(* ------------------------- the echo scenario -------------------------- *)

\* the handlers the echo command CommandA is registered in
EchoHandlers ==
    {<<CommandA>>, <<CommandA, CommandB, CommandC>>,
     <<CommandC, CommandB, CommandA>>}

\* the bytes of the scenario's inputs
EchoBytes == {0, 16, 17, 34, 255}

\* the inputs of the scenario: every op and val made of the scenario's bytes
\* behind FormatA's ID or an unknown one, and zero-filled buffers of every
\* other length
EchoBuffers ==
    {<<l>> \o p : l \in {FormatA_ID, UNKNOWN_ID},
                  p \in [1..(SizeOf(WordFormat) - 1) -> EchoBytes]}
    \cup {[k \in 1..n |-> IF k = 1 THEN FormatA_ID ELSE 0] : n \in 0..MaxLen}

EchoInit ==
    /\ cmds \in EchoHandlers
    /\ pc = "template"
    /\ data = <<>>
    /\ idx = 0
    /\ content = <<>>
    /\ plan = NoPlan
    /\ sent = 0
    /\ exc = NoException
    /\ responses = <<>>
    /\ attempted = Zero
    /\ constructed = Zero
    /\ executed = 0
    /\ result = <<>>
    /\ NoMessage
    /\ NoResult
    /\ NoOthers

EchoNext ==
    \/ Instantiate
    \/ \E b \in EchoBuffers : Call(b)
    \/ Entry
    \/ Fold
    \/ Construct
    \/ ExecuteBegin
    \/ Respond
    \/ ExecuteEnd
    \/ Catch

EchoSpec == EchoInit /\ [][EchoNext]_vars

(* ------------------------ a session of dispatches --------------------- *)

\* the handlers of the session
SessionHandlers ==
    {<<CommandA, CommandB, CommandC>>, <<CommandC, CommandB, CommandA>>}

\* the buffers of the session: raw_a, raw_b and raw_c, and the empty buffer,
\* an unknown ID and a short buffer
SessionBuffers ==
    {<<FormatA_ID, 16, 17, 0>>, <<FormatB_ID, 32, 34, 0>>,
     <<FormatC_ID, 48, 51, 0>>, <<>>, <<UNKNOWN_ID>>, <<FormatA_ID, 16>>}

\* a further call in the same test: the caller keeps what the last call
\* gave, the counters are not reset, the one communicator is cleared and
\* Handler::execute is called again
SessionCall(b) ==
    /\ pc = "idle"
    /\ Len(history) < MaxCalls
    /\ history' = IF result = <<>> THEN history
                  ELSE Append(history, [data |-> data, result |-> result[1],
                                        responses |-> responses])
    /\ pc' = "entry"
    /\ data' = b
    /\ idx' = 0
    /\ content' = <<>>
    /\ plan' = NoPlan
    /\ sent' = 0
    /\ exc' = NoException
    /\ responses' = <<>>
    /\ executed' = 0
    /\ result' = <<>>
    /\ UNCHANGED <<cmds, attempted, constructed>>
    /\ UNCHANGED <<mvars, rvars, threads, candidate, verdict, rq>>

SessionInit ==
    /\ cmds \in SessionHandlers
    /\ pc = "idle"
    /\ data = <<>>
    /\ idx = 0
    /\ content = <<>>
    /\ plan = NoPlan
    /\ sent = 0
    /\ exc = NoException
    /\ responses = <<>>
    /\ attempted = Zero
    /\ constructed = Zero
    /\ executed = 0
    /\ result = <<>>
    /\ NoMessage
    /\ NoResult
    /\ history = <<>>
    /\ threads = <<>>
    /\ candidate = <<>>
    /\ verdict = "none"
    /\ rq = <<>>

SessionNext ==
    \/ \E b \in SessionBuffers : SessionCall(b)
    \/ Entry
    \/ Fold
    \/ Construct
    \/ ExecuteBegin
    \/ Respond
    \/ ExecuteEnd
    \/ Catch

SessionSpec == SessionInit /\ [][SessionNext]_vars

(* -------------------------- concurrent calls -------------------------- *)

\* a thread that has not called yet: its buffer, its communicator and the
\* locals of its call
NotCalled ==
    [pc |-> "start", data |-> <<>>, idx |-> 0, content |-> <<>>,
     plan |-> NoPlan, sent |-> 0, exc |-> NoException, responses |-> <<>>,
     result |-> <<>>]

\* return r; from the thread's call
ReturnOf(c, r) == [c EXCEPT !.result = <<r>>, !.pc = "idle"]

\* thread t calls Handler::execute(b, communicator) with a buffer and a
\* communicator of its own
ThreadCall(t, b) ==
    /\ threads[t].pc = "start"
    /\ threads' = [threads EXCEPT ![t] = [@ EXCEPT !.pc = "entry", !.data = b]]
    /\ UNCHANGED <<hvars, mvars, rvars, history, candidate, verdict, rq>>

\* if (data.empty()) return unexpected(...); id = data.front();
ThreadEntry(t) ==
    /\ threads[t].pc = "entry"
    /\ threads' = [threads EXCEPT ![t] =
           IF IsEmpty(@.data) THEN ReturnOf(@, Unexpected(EmptyMessageError))
           ELSE [@ EXCEPT !.idx = 1, !.pc = "fold"]]
    /\ UNCHANGED <<hvars, mvars, rvars, history, candidate, verdict, rq>>

\* one operand of the fold, which reads cmdId<Commands>()
ThreadFold(t) ==
    /\ threads[t].pc = "fold"
    /\ threads' = [threads EXCEPT ![t] =
           IF @.idx > Len(cmds)
           THEN ReturnOf(@, Unexpected(IdNotFoundError(@.data[1])))
           ELSE IF IdMatches(@.data[1], cmds[@.idx])
                THEN [@ EXCEPT !.pc = "ctor"]
                ELSE [@ EXCEPT !.idx = @ + 1]]
    /\ UNCHANGED <<hvars, mvars, rvars, history, candidate, verdict, rq>>

\* Commands{data}: the test command increments its static counter without
\* synchronisation, so an increment of another thread may be lost
ThreadConstruct(t) ==
    /\ threads[t].pc = "ctor"
    /\ LET c == threads[t]
           C == cmds[c.idx]
           base == CommandCtor(C, c.data)
       IN  IF Threw(base)
           THEN /\ threads' = [threads EXCEPT ![t] =
                                  [@ EXCEPT !.exc = base.exc, !.pc = "catch"]]
                /\ UNCHANGED constructed
           ELSE /\ threads' = [threads EXCEPT ![t] =
                                  [@ EXCEPT !.content = base.content,
                                            !.pc = "exec"]]
                /\ \E v \in 1..(constructed[C.name] + 1) :
                       constructed' = [constructed EXCEPT ![C.name] = v]
    /\ UNCHANGED <<cmds, pc, data, idx, content, plan, sent, exc, responses,
                   attempted, executed, result>>
    /\ UNCHANGED <<mvars, rvars, history, candidate, verdict, rq>>

\* .execute(communicator) is entered
ThreadExecuteBegin(t) ==
    /\ threads[t].pc = "exec"
    /\ \E p \in ExecutePlans(cmds[threads[t].idx], threads[t].content) :
           threads' = [threads EXCEPT ![t] =
                          [@ EXCEPT !.plan = p, !.sent = 0, !.pc = "respond"]]
    /\ UNCHANGED <<hvars, mvars, rvars, history, candidate, verdict, rq>>

\* every thread responding to the communicator of the first thread
ThreadRespondShared(t) ==
    /\ threads[t].pc = "respond"
    /\ threads[t].sent < Len(threads[t].plan.frames)
    /\ LET frame == threads[t].plan.frames[threads[t].sent + 1]
           counted == [threads EXCEPT ![t] = [@ EXCEPT !.sent = @ + 1]]
       IN  threads' = [counted EXCEPT ![1] =
                          [@ EXCEPT !.responses = Append(@, frame)]]
    /\ UNCHANGED <<hvars, mvars, rvars, history, candidate, verdict, rq>>

\* communicator.respond(frame) on the thread's own communicator
ThreadRespond(t) ==
    /\ threads[t].pc = "respond"
    /\ threads[t].sent < Len(threads[t].plan.frames)
    /\ threads' = [threads EXCEPT ![t] =
           [@ EXCEPT !.responses = Append(@, threads[t].plan.frames[
                                                 threads[t].sent + 1]),
                     !.sent = @ + 1]]
    /\ UNCHANGED <<hvars, mvars, rvars, history, candidate, verdict, rq>>

\* execute() returns or throws
ThreadExecuteEnd(t) ==
    /\ threads[t].pc = "respond"
    /\ threads[t].sent = Len(threads[t].plan.frames)
    /\ threads' = [threads EXCEPT ![t] =
           IF @.plan.throw = NoException THEN ReturnOf(@, Ok)
           ELSE [@ EXCEPT !.exc = @.plan.throw, !.pc = "catch"]]
    /\ UNCHANGED <<hvars, mvars, rvars, history, candidate, verdict, rq>>

\* the catch clauses
ThreadCatch(t) ==
    /\ threads[t].pc = "catch"
    /\ threads' = [threads EXCEPT ![t] =
                      ReturnOf(@, Unexpected(CatchClause(@.exc)))]
    /\ UNCHANGED <<hvars, mvars, rvars, history, candidate, verdict, rq>>

ThreadInit ==
    /\ cmds \in SessionHandlers
    /\ pc = "idle"
    /\ data = <<>>
    /\ idx = 0
    /\ content = <<>>
    /\ plan = NoPlan
    /\ sent = 0
    /\ exc = NoException
    /\ responses = <<>>
    /\ attempted = Zero
    /\ constructed = Zero
    /\ executed = 0
    /\ result = <<>>
    /\ NoMessage
    /\ NoResult
    /\ history = <<>>
    /\ threads = [t \in 1..MaxThreads |-> NotCalled]
    /\ candidate = <<>>
    /\ verdict = "none"
    /\ rq = <<>>

ThreadNext ==
    \E t \in 1..MaxThreads :
        \/ \E b \in SessionBuffers : ThreadCall(t, b)
        \/ ThreadEntry(t)
        \/ ThreadFold(t)
        \/ ThreadConstruct(t)
        \/ ThreadExecuteBegin(t)
        \/ ThreadRespond(t)
        \/ ThreadExecuteEnd(t)
        \/ ThreadCatch(t)

ThreadSpec == ThreadInit /\ [][ThreadNext]_vars

(* -------------------------- format validation ------------------------- *)

\* the types a format declares its ID and its fields with
TypeNames ==
    {"std::uint8_t", "unsigned char", "bool", "char", "std::int8_t",
     "std::uint16_t", "int", "unsigned int", "std::uint32_t", "SmallEnum"}

\* sizeof(T), which is also the alignment of T
SizeOfType(T) ==
    IF T = "std::uint16_t" THEN 2
    ELSE IF T \in {"int", "unsigned int", "std::uint32_t"} THEN 4
    ELSE 1

\* std::is_integral_v<T>: false for an enumeration
is_integral(T) == T # "SmallEnum"

\* std::is_unsigned_v<T>: the build decides for plain char
is_unsigned(T, char_unsigned) ==
    \/ T \in {"std::uint8_t", "unsigned char", "bool", "std::uint16_t",
              "unsigned int", "std::uint32_t"}
    \/ T = "char" /\ char_unsigned

\* UnsignedByte without the test of the sign
UnsignedByteAnySign(T, char_unsigned) ==
    is_integral(T) /\ SizeOfType(T) = 1

\* concept UnsignedByte
UnsignedByte(T, char_unsigned) ==
    is_integral(T) /\ is_unsigned(T, char_unsigned) /\ SizeOfType(T) = 1

\* the offset rounded up to a multiple of the alignment
AlignUp(offset, align) == ((offset + align - 1) \div align) * align

\* the offset one past field k of the format
RECURSIVE EndOf(_, _)
\* offsetof(F, field k): packed fields follow each other, other fields start
\* at a multiple of their alignment
OffsetOf(F, k) ==
    IF k = 1 THEN 0
    ELSE IF F.packed THEN EndOf(F, k - 1)
    ELSE AlignUp(EndOf(F, k - 1), SizeOfType(F.fields[k].type))

EndOf(F, k) == OffsetOf(F, k) + SizeOfType(F.fields[k].type)

\* the sum of the sizes of the declared fields
RECURSIVE FieldBytesOf(_)
FieldBytesOf(fields) ==
    IF fields = <<>> THEN 0
    ELSE SizeOfType(Head(fields).type) + FieldBytesOf(Tail(fields))

\* the largest alignment among the fields
RECURSIVE AlignOf(_)
AlignOf(fields) ==
    IF fields = <<>> THEN 1
    ELSE LET a == SizeOfType(Head(fields).type)
             r == AlignOf(Tail(fields))
         IN  IF a > r THEN a ELSE r

\* sizeof(F), the number of bytes Message copies and serialize() sends
SizeOfFormat(F) ==
    IF F.fields = <<>> THEN 1
    ELSE IF F.packed THEN EndOf(F, Len(F.fields))
    ELSE AlignUp(EndOf(F, Len(F.fields)), AlignOf(F.fields))

\* std::is_standard_layout_v<F>: false when the fields differ in access
is_standard_layout(F) == ~F.mixed_access

\* concept MessageFormatT
MessageFormatT(F) ==
    /\ F.ID # "none"
    /\ UnsignedByte(F.ID, F.char_unsigned)
    /\ \E k \in 1..Len(F.fields) :
           /\ F.fields[k].name = "id"
           /\ UnsignedByte(F.fields[k].type, F.char_unsigned)
           /\ is_standard_layout(F)
           /\ OffsetOf(F, k) = 0

\* the field lists: up to MaxFields fields a, b, ... of one, two or four
\* bytes, and a field id of any type at any place among them or nowhere
FieldLists ==
    UNION {UNION {LET others == [j \in 1..n |->
                                   [name |-> <<"a", "b", "c", "d">>[j], type |-> o[j]]]
                  IN  {others} \cup
                      {SubSeq(others, 1, k - 1)
                         \o <<[name |-> "id", type |-> t]>>
                         \o SubSeq(others, k, n) :
                           k \in 1..(n + 1), t \in TypeNames} :
                  o \in [1..n -> {"std::uint8_t", "std::uint16_t",
                                  "std::uint32_t"}]} : n \in 0..MaxFields}

\* the format types a program may hand to Message, and the build's char
FormatCandidates ==
    [ID : TypeNames \cup {"none"}, fields : FieldLists, packed : BOOLEAN,
     mixed_access : BOOLEAN, char_unsigned : BOOLEAN]

\* the build evaluates MessageFormatT<F> where F is used as a format
Validate ==
    /\ verdict = "none"
    /\ verdict' = IF MessageFormatT(candidate) THEN "accepted" ELSE "rejected"
    /\ UNCHANGED <<hvars, mvars, rvars, history, threads, candidate, rq>>

FormatInit ==
    /\ HandlerIdle
    /\ NoMessage
    /\ NoResult
    /\ history = <<>>
    /\ threads = <<>>
    /\ candidate \in FormatCandidates
    /\ verdict = "none"
    /\ rq = <<>>

FormatSpec == FormatInit /\ [][Validate]_vars

(* --------------------------- collecting request ----------------------- *)

\* Communicator::REQUEST_STATUS
SUCCESS == 0
ERROR_TIMEOUT == 1
ERROR_COMMUNICATION == 2
ERROR_UNKNOWN == 3

\* the frames a peer answers a request with
RawResponses ==
    {ResponseFrame(0, 0), ResponseFrame(1, 1), <<NonTrivialFormat_ID, 0, 0>>}

\* the lists a caller passes as responses: a new one, or one in use
CallerLists == {<<>>} \cup {<<f>> : f \in RawResponses}

\* a callback putting the response in front of the list
PushFront(list, raw_response) == <<raw_response>> \o list

\* the lambda of the collecting request: responses.push_back(raw_response)
PushBack(list, raw_response) == Append(list, raw_response)

\* request(message, responses): the callback is made and the callback-style
\* request is called with it
RequestCollect(m, list) ==
    /\ rq # <<>>
    /\ rq.pc = "start"
    /\ rq' = [rq EXCEPT !.pc = "underlying", !.message = m, !.given = list,
                        !.responses = list]
    /\ UNCHANGED <<hvars, mvars, rvars, history, threads, candidate, verdict>>

\* the callback-style request receives a response and hands it to the
\* callback
Deliver(raw_response) ==
    /\ rq # <<>>
    /\ rq.pc = "underlying"
    /\ Len(rq.delivered) < MaxResp
    /\ rq' = [rq EXCEPT !.delivered = Append(@, raw_response),
                        !.responses = PushBack(@, raw_response)]
    /\ UNCHANGED <<hvars, mvars, rvars, history, threads, candidate, verdict>>

\* the callback-style request returns st, and the collecting request
\* returns what it returned
RequestReturn(st) ==
    /\ rq # <<>>
    /\ rq.pc = "underlying"
    /\ rq' = [rq EXCEPT !.pc = "returned", !.underlying = <<st>>,
                        !.status = <<st>>]
    /\ UNCHANGED <<hvars, mvars, rvars, history, threads, candidate, verdict>>

RequestInit ==
    /\ HandlerIdle
    /\ NoMessage
    /\ NoResult
    /\ history = <<>>
    /\ threads = <<>>
    /\ candidate = <<>>
    /\ verdict = "none"
    /\ rq = [pc |-> "start", message |-> <<>>, given |-> <<>>,
             responses |-> <<>>, delivered |-> <<>>, underlying |-> <<>>,
             status |-> <<>>]

RequestNext ==
    \/ \E m \in {<<FormatA_ID, 16, 17, 0>>, <<FormatB_ID, 32, 34, 0>>},
          list \in CallerLists : RequestCollect(m, list)
    \/ \E f \in RawResponses : Deliver(f)
    \/ \E st \in {SUCCESS, ERROR_TIMEOUT, ERROR_COMMUNICATION, ERROR_UNKNOWN} :
          RequestReturn(st)

RequestSpec == RequestInit /\ [][RequestNext]_vars

(* --------------------------- Result objects --------------------------- *)

\* Result<T, E>(ExpectT, T v) storing no value
ResultExpectNoValue(v) == [is_ok |-> TRUE, value |-> <<>>, error |-> <<>>]

\* Result<T, E>(ExpectT, T v): _is_ok, and the optionals _value and _error
ResultExpect(v) == [is_ok |-> TRUE, value |-> <<v>>, error |-> <<>>]

\* Result<T, E>(UnexpectT, E e)
ResultUnexpect(e) == [is_ok |-> FALSE, value |-> <<>>, error |-> <<e>>]

\* whether the Result is a Result<T, E> (it has _value) or a Result<void, E>
HasValueMember(r) == "value" \in DOMAIN r

\* Result::ok() and operator bool
ok(r) == r.is_ok

\* what an accessor call did: the accessor, the value of the condition of
\* its assert, what it returned, and how the call ended
Access(op, asserted, got, end) ==
    [op |-> op, asserted |-> asserted, got |-> got, end |-> end]

\* std::optional::value(): the stored value, or std::bad_optional_access
OptionalValue(op, asserted, opt) ==
    IF opt = <<>> THEN Access(op, asserted, <<>>, "bad_optional_access")
    ELSE Access(op, asserted, opt, "returned")

\* Result::value(): assert(_is_ok), then _value.value(); Result<void, E> has
\* nothing to return. With NDEBUG the assert is compiled out, without it a
\* false condition aborts
ValueAccess(r, ndebug) ==
    LET asserted == r.is_ok IN
    IF ~asserted /\ ~ndebug THEN Access("value", asserted, <<>>, "abort")
    ELSE IF HasValueMember(r) THEN OptionalValue("value", asserted, r.value)
    ELSE Access("value", asserted, <<>>, "returned")

\* error() with the condition of value() in its assert
ErrorAccessAssertsOk(r, ndebug) ==
    LET asserted == r.is_ok IN
    IF ~asserted /\ ~ndebug THEN Access("error", asserted, <<>>, "abort")
    ELSE OptionalValue("error", asserted, r.error)

\* Result::error(): assert(!_is_ok), then _error.value()
ErrorAccess(r, ndebug) ==
    LET asserted == ~r.is_ok IN
    IF ~asserted /\ ~ndebug THEN Access("error", asserted, <<>>, "abort")
    ELSE OptionalValue("error", asserted, r.error)

\* the handlers whose Results are looked at
ResultHandlers ==
    {cs \in CommandLists : Len(cs) <= 1} \cup {<<CommandA, CommandB, CommandC>>}

\* the Results Handler::execute returns
ExecuteResults ==
    {HandlerExecute(cs, d, uc, up).result :
        cs \in ResultHandlers, d \in Buffers,
        uc \in DerivedCtorThrows(UserCommand),
        up \in ExecutePlans(UserCommand, <<>>)}

\* the errors a Result is made with
Errors == {r.error[1] : r \in {x \in ExecuteResults : ~x.is_ok}}

\* Result<T, E> made by expected(value)
MakeExpected(v) ==
    /\ res = <<>>
    /\ res' = <<ResultExpect(v)>>
    /\ UNCHANGED <<access, hvars, mvars, evars>>

\* Result<T, E> made by unexpected<T, E>(error)
MakeUnexpected(e) ==
    /\ res = <<>>
    /\ res' = <<ResultUnexpect(e)>>
    /\ UNCHANGED <<access, hvars, mvars, evars>>

\* const Result result = Handler::execute(data, communicator)
FromExecute(r) ==
    /\ res = <<>>
    /\ res' = <<r>>
    /\ UNCHANGED <<access, hvars, mvars, evars>>

\* result.ok(), or the Result used as a condition
OkCall ==
    /\ res # <<>>
    /\ access' = Access("ok", TRUE, <<ok(res[1])>>, "returned")
    /\ UNCHANGED <<res, hvars, mvars, evars>>

\* result.value() in a build with or without NDEBUG
ValueCall(ndebug) ==
    /\ res # <<>>
    /\ access' = ValueAccess(res[1], ndebug)
    /\ UNCHANGED <<res, hvars, mvars, evars>>

\* result.error() in a build with or without NDEBUG
ErrorCall(ndebug) ==
    /\ res # <<>>
    /\ access' = ErrorAccess(res[1], ndebug)
    /\ UNCHANGED <<res, hvars, mvars, evars>>

ResultInit ==
    /\ HandlerIdle
    /\ NoMessage
    /\ NoResult
    /\ NoOthers

ResultNext ==
    \/ \E v \in FieldValues(2) : MakeExpected(v)
    \/ \E e \in Errors : MakeUnexpected(e)
    \/ \E r \in ExecuteResults : FromExecute(r)
    \/ OkCall
    \/ \E ndebug \in BOOLEAN : ValueCall(ndebug)
    \/ \E ndebug \in BOOLEAN : ErrorCall(ndebug)

ResultSpec == ResultInit /\ [][ResultNext]_vars

(* --------------------------- observations ----------------------------- *)

\* a call has returned and its Result is at hand
Returned == pc = "idle" /\ result # <<>>

\* the call returned the error code
Reported(code) ==
    /\ Returned
    /\ ~result[1].is_ok
    /\ Len(result[1].error) = 1
    /\ result[1].error[1].code = code

\* the registered commands whose ID is the buffer's leading byte
Matching == {k \in 1..Len(cmds) : data # <<>> /\ cmdId(cmds[k]) = data[1]}

InCall == pc \in Dispatching \/ Returned

\* the counters with one construction of the named command and no other
One(name) == [Zero EXCEPT ![name] = 1]

\* what the user-written constructor body of this call threw
UserCtorThrew ==
    IF executed = 0 /\ Matching # {} /\ attempted # Zero
       /\ ~Threw(CommandCtor(cmds[idx], data))
    THEN exc ELSE NoException

\* a message object exists, built by the named constructor
IsSent == message # <<>> /\ message[1].kind = "sent"
IsReceived == message # <<>> /\ message[1].kind = "received"

\* the byte constructor of ReceivedMessage ran, and returned or threw
ByteCtorRan == IsReceived \/ thrown # NoException

\* the buffer the byte constructor was given
Given == IF message # <<>> THEN captured ELSE source

\* the byte image of what the message was built from, at that moment
Image == IF IsSent THEN toBytes(fmt.layout, captured) ELSE captured

\* every field of the value fits its width, and id is the format's ID
WellFormed(F, v) ==
    /\ Len(v) = Len(F.layout)
    /\ v[1] = F.ID
    /\ \A k \in 1..Len(v) : v[k] \in 0..MaxValue(F.layout[k])

(* ------------------------------- claims ------------------------------- *)

C5_OrderIndependence ==
    Returned =>
        \A f \in Permutations(1..Len(cmds)) :
            HandlerExecute(Permuted(cmds, f), data, UserCtorThrew, plan)
                = [selected |-> IF attempted = Zero THEN "none"
                                ELSE cmds[idx].name,
                   result |-> result[1],
                   responses |-> responses]

\* C5 witness: a handler of three commands dispatched successfully to its
\* last command, which a permutation moves to another position.
C5_Witness ==
    /\ Returned
    /\ Len(cmds) = MaxCmds
    /\ idx = MaxCmds
    /\ result[1].is_ok
    /\ Len(responses) = 1

\* C6: UniqueIds over a command list is true exactly when the IDs of the
\* listed commands are pairwise distinct, at any two positions, and a
\* handler whose list holds two commands with the same ID is rejected: no
\* call on it ever starts.
C6_UniqueIdsEnforced ==
    LET distinct == \A i, j \in 1..Len(cmds) :
                        i # j => cmds[i].ID # cmds[j].ID
    IN  /\ UniqueIds(cmds) <=> distinct
        /\ pc # "template" => (pc = "rejected" <=> ~distinct)
        /\ ~distinct => /\ pc \in {"template", "rejected"}
                        /\ result = <<>>
                        /\ attempted = Zero

\* C6 witness: a handler whose first and third commands share an ID, with a
\* different one between them, was rejected.
C6_Witness ==
    /\ pc = "rejected"
    /\ Len(cmds) = 3
    /\ cmds[1].ID = cmds[3].ID
    /\ cmds[1].ID # cmds[2].ID

\* C7: Handler::execute reports success if and only if the buffer is
\* non-empty, its leading byte matches a registered command, that command
\* was constructed from the whole buffer without error, and its execute()
\* ran to completion without throwing.
C7_SuccessIffAllStepsSucceeded ==
    Returned =>
        (result[1].is_ok <=>
            /\ data # <<>>
            /\ Matching # {}
            /\ \E k \in Matching :
                  /\ constructed = One(cmds[k].name)
                  /\ content = Memcpy(cmds[k].format, data)
                  /\ Serialize(cmds[k].format, content) = data
            /\ executed = 1
            /\ plan.throw = NoException
            /\ responses = plan.frames
            /\ exc = NoException)

\* C7 witness: both sides happen: a call returned success.
C7_Witness ==
    /\ Returned
    /\ result[1].is_ok
    /\ executed = 1
    /\ cmds[idx].name = "CommandB"

\* C8 (as claimed): if the matched command's execute() throws anything,
\* Handler::execute reports ERROR_EXCEPTION_DURING_EXECUTION with the
\* message of the cause (or "Unknown exception" for a cause without one).
C8_ExecuteFailureIsExecutionError ==
    (Returned /\ executed = 1 /\ plan.throw # NoException) =>
        /\ Reported(ERROR_EXCEPTION_DURING_EXECUTION)
        /\ result[1].error[1].msg =
               IF IsStdException(plan.throw) THEN plan.throw.what
               ELSE "Unknown exception"

\* C9 (as claimed): when the construction of the matched command fails with
\* MessageWrongIdError, Handler::execute reports an outcome that is neither
\* the length error nor the execution error.
C9_WrongIdReportedDistinctly ==
    (Returned /\ attempted # Zero /\ executed = 0
        /\ exc = MessageWrongIdError) =>
        /\ ~result[1].is_ok
        /\ result[1].error[1].code \notin
               {ERROR_MESSAGE_LENGTH_ERROR, ERROR_EXCEPTION_DURING_EXECUTION}

\* the outcomes Handler::execute can return
IsOutcome(r) ==
    \/ r = Ok
    \/ /\ ~r.is_ok
       /\ Len(r.error) = 1
       /\ r.error[1].code \in {ERROR_ID_NOT_FOUND, ERROR_MESSAGE_LENGTH_ERROR,
                               ERROR_EXCEPTION_DURING_EXECUTION,
                               ERROR_EMPTY_MESSAGE}

C11_RoundTrip ==
    (IsSent /\ trip # <<>>) =>
        /\ MessageCtor(fmt.layout, Serialize(fmt.layout, captured)).content
               = captured
        /\ WellFormed(fmt, captured) =>
               /\ ~Threw(trip[1])
               /\ trip[1].content = captured
               /\ toBytes(fmt.layout, trip[1].content)
                      = toBytes(fmt.layout, captured)

\* C11 witness: the round trip was made on a well-formed value whose 16-bit
\* field has two different bytes.
C11_Witness ==
    /\ IsSent
    /\ trip # <<>>
    /\ WellFormed(fmt, captured)
    /\ captured[Len(captured)] = LeValue(<<16, 255>>)

C16_SerializeIsFresh ==
    message # <<>> =>
        /\ fresh => /\ Len(heap[last]) = SizeOf(fmt.layout)
                    /\ heap[last] = Image
        /\ \A k \in 1..Len(heap) : Len(heap[k]) = SizeOf(fmt.layout)
        /\ toBytes(fmt.layout, message[1].content) = Image

\* C16 witness: a second serialize() returned after the caller wrote to the
\* first returned vector.
C16_Witness ==
    /\ message # <<>>
    /\ fresh
    /\ last = 2
    /\ heap[1] # Image
    /\ heap[2] = Image

\* C17: a message is immutable after construction and owns its copy: no
\* content() or serialize() call and no write of the caller to the source
\* value or source buffer changes the object; every content() shows, and
\* every serialize() returns, what the constructor captured.
C17_ImmutableOwnCopy ==
    [][message # <<>> =>
          /\ message' = message
          /\ captured' = captured
          /\ view' # view => toBytes(fmt.layout, view'[1]) = Image
          /\ heap' # heap /\ fresh' => heap'[last'] = Image]_vars

\* C17 witness: after the caller wrote to the source, content() and
\* serialize() were called.
C17_Witness ==
    /\ message # <<>>
    /\ source # captured
    /\ view # <<>>
    /\ fresh

\* the frame the echo command answers the well-formed input d with:
\* {0x90, op, (val + 1) mod 2^16}, val read and result written low byte first
EchoFrame(d) ==
    LET val == d[3] + 256 * d[4]
        r == (val + 1) % 65536
    IN  <<144, d[2], r % 256, r \div 256>>

\* C18: with the echo command CommandA registered, every well-formed input
\* [0x01, op, val_lo, val_hi] dispatches successfully and delivers exactly
\* one response frame, the serialized {0x90, op, (val + 1) mod 2^16}:
\* [0x01, 0x10, 0x11, 0x22] gives [0x90, 0x10, 0x12, 0x22], and val = 0xFFFF
\* wraps to result 0.
C18_EchoScenario ==
    (Returned /\ Len(data) = 4 /\ data[1] = 1) =>
        /\ result[1] = Ok
        /\ responses = <<EchoFrame(data)>>
        /\ data = <<1, 16, 17, 34>> => responses = << <<144, 16, 18, 34>> >>
        /\ (data[3] = 255 /\ data[4] = 255) =>
               responses = << <<144, data[2], 0, 0>> >>

\* C18 witness: the handler <C, B, A> answered [0x01, 0x10, 0xFF, 0xFF],
\* whose val + 1 does not fit 16 bits.
C18_Witness ==
    /\ Returned
    /\ cmds = <<CommandC, CommandB, CommandA>>
    /\ data = <<1, 16, 255, 255>>
    /\ Len(responses) = 1

\* a Result in one of its two states: ok with no error stored (and, for a
\* Result<T, E>, a value), or not ok with an error stored and no value
TwoStates(r) ==
    \/ /\ r.is_ok
       /\ r.error = <<>>
       /\ HasValueMember(r) => Len(r.value) = 1
    \/ /\ ~r.is_ok
       /\ Len(r.error) = 1
       /\ HasValueMember(r) => r.value = <<>>

\* C19: every Result is created in exactly one of two states, ok with no
\* error stored or not ok with an error stored, never in a third one, and
\* no accessor call changes a Result once it is created.
C19_ResultTwoStates ==
    [][/\ res' # <<>> => TwoStates(res'[1])
       /\ res # <<>> => res' = res]_vars

\* C19 witness: error() was called on an error Result<T, E>.
C19_Witness ==
    /\ res # <<>>
    /\ HasValueMember(res[1])
    /\ ~ok(res[1])
    /\ access.op = "error"

\* C20: the assert of value() holds exactly on success Results and the
\* assert of error() exactly on error Results; value() hands out the stored
\* value only when ok(), error() returns exactly when not ok(), and then the
\* error it returns carries a code of HANDLER_EXECUTE_STATUS.
C20_AccessorPreconditions ==
    res # <<>> =>
        /\ access.op = "value" =>
               /\ access.asserted <=> ok(res[1])
               /\ access.got # <<>> => (ok(res[1]) /\ access.got = res[1].value)
               /\ ok(res[1]) => access.end = "returned"
        /\ access.op = "error" =>
               /\ access.asserted <=> ~ok(res[1])
               /\ access.end = "returned" <=> ~ok(res[1])
               /\ ~ok(res[1]) =>
                      /\ access.got = res[1].error
                      /\ IsOutcome([is_ok |-> FALSE, error |-> access.got])

\* C20 witness: error() returned the error of a Result that
\* Handler::execute made for an unknown ID.
C20_Witness ==
    /\ res # <<>>
    /\ ~HasValueMember(res[1])
    /\ access.op = "error"
    /\ access.end = "returned"
    /\ access.got # <<>>
    /\ access.got[1].code = ERROR_ID_NOT_FOUND

(* ------------------------ claims on dispatch -------------------------- *)

\* C21: in a sequence of Handler::execute calls on one handler, each call
\* returns the Result and delivers the response frames that the call made
\* alone on its buffer gives, whatever calls came before; a buffer
\* dispatched again gets the same Result and the same frames as the
\* earlier time.
C21_NoStateCrossesDispatches ==
    Returned =>
        /\ \A k \in 1..Len(history) :
               history[k].data = data =>
                   /\ history[k].result = result[1]
                   /\ history[k].responses = responses
        /\ LET alone == HandlerExecute(cmds, data, NoException, NoPlan)
           IN  /\ result[1] = alone.result
               /\ responses = alone.responses

\* C21 witness: raw_a was dispatched, then raw_b, then raw_a again, which
\* constructed the second CommandA and was answered as the first time.
C21_Witness ==
    /\ Returned
    /\ Len(history) = 2
    /\ data = <<FormatA_ID, 16, 17, 0>>
    /\ history[1].data = data
    /\ history[2].data = <<FormatB_ID, 32, 34, 0>>
    /\ constructed["CommandA"] = 2
    /\ responses = history[1].responses
    /\ Len(responses) = 1

\* C22: when several threads run Handler::execute at the same time, each on
\* a buffer and a communicator of its own, then under every interleaving
\* each communicator receives only frames of its own call, in order, and
\* each call returns the Result and has delivered the frames that it gives
\* when run alone; no step writes the command list and its IDs.
C22_Reentrant ==
    /\ [](\A t \in DOMAIN threads :
            LET c == threads[t]
                alone == HandlerExecute(cmds, c.data, NoException, NoPlan)
            IN
            /\ c.pc # "start" =>
                  /\ Len(c.responses) <= Len(alone.responses)
                  /\ c.responses =
                         SubSeq(alone.responses, 1, Len(c.responses))
            /\ c.pc = "idle" =>
                  /\ c.result = <<alone.result>>
                  /\ c.responses = alone.responses)
    /\ [][cmds' = cmds]_vars

\* C22 witness: two threads have returned, the first from raw_a and the
\* second from raw_b, each with the one frame of its own command.
C22_Witness ==
    /\ threads # <<>>
    /\ \A t \in DOMAIN threads : threads[t].pc = "idle"
    /\ threads[1].data = <<FormatA_ID, 16, 17, 0>>
    /\ threads[2].data = <<FormatB_ID, 32, 34, 0>>
    /\ threads[1].responses = <<ResponseFrame(16, 18)>>
    /\ threads[2].responses = <<ResponseFrame(32, 221)>>

\* the one-byte unsigned integer types of the build
ByteUnsigned ==
    {"std::uint8_t", "unsigned char", "bool"}
    \cup (IF candidate.char_unsigned THEN {"char"} ELSE {})

\* the place of the field id in the candidate, 0 when it has none
IdPlace ==
    IF \E k \in 1..Len(candidate.fields) : candidate.fields[k].name = "id"
    THEN CHOOSE k \in 1..Len(candidate.fields) :
             candidate.fields[k].name = "id"
    ELSE 0

Padded(F) == F.fields # <<>> /\ SizeOfFormat(F) # FieldBytesOf(F.fields)

\* C24 (as claimed): a format whose in-memory size differs from the size of
\* its declared fields, so that it holds implicit padding, is rejected by
\* the format validation of the build.
C24_PaddedFormatRejected ==
    (verdict # "none" /\ Padded(candidate)) => verdict = "rejected"

\* C25: the collecting request appends every response the callback-style
\* request delivers to the caller's list, behind what the list held, in the
\* order of delivery, and returns the status the callback-style request
\* returned, one of the four of REQUEST_STATUS.
C25_CollectingRequest ==
    (rq # <<>> /\ rq.pc # "start") =>
        /\ rq.responses = rq.given \o rq.delivered
        /\ rq.pc = "returned" =>
              /\ rq.status = rq.underlying
              /\ Len(rq.status) = 1
              /\ rq.status[1] \in {SUCCESS, ERROR_TIMEOUT,
                                     ERROR_COMMUNICATION, ERROR_UNKNOWN}

\* C25 witness: two different responses were delivered to a list that held
\* one frame, and the request returned ERROR_TIMEOUT.
C25_Witness ==
    /\ rq # <<>>
    /\ rq.pc = "returned"
    /\ Len(rq.given) = 1
    /\ Len(rq.delivered) = 2
    /\ rq.delivered[1] # rq.delivered[2]
    /\ Len(rq.responses) = 3
    /\ rq.status = <<ERROR_TIMEOUT>>

\* C26: dispatch never retries: in one Handler::execute call at most one
\* command constructor is attempted, at most once, and execute() is invoked
\* at most once; a failed construction or execution leads to the return and
\* to no further constructor, execute() or respond call.
C26_NeverRetries ==
    /\ [](InCall =>
            /\ \A n \in CommandNames : attempted[n] <= 1
            /\ \A n, m \in CommandNames :
                   n # m => attempted[n] = 0 \/ attempted[m] = 0
            /\ executed <= 1)
    /\ [][pc = "catch" =>
            /\ pc' = "idle"
            /\ ~result'[1].is_ok
            /\ attempted' = attempted
            /\ constructed' = constructed
            /\ executed' = executed
            /\ responses' = responses]_vars

\* C26 witness: in a handler of three commands the construction of the
\* first one failed, and the call returned the error with one attempt made.
C26_Witness ==
    /\ Returned
    /\ Len(cmds) = MaxCmds
    /\ idx = 1
    /\ exc # NoException
    /\ executed = 0
    /\ attempted = One(cmds[1].name)

C28_ResponsesKeptAndExecutionError ==
    (Returned /\ executed = 1 /\ plan.throw # NoException) =>
        /\ responses = plan.frames
        /\ sent = Len(plan.frames)
        /\ Reported(ERROR_EXCEPTION_DURING_EXECUTION)

\* C29: UniqueIds gives the same truth value on every reordering of a
\* command list as on the list itself.
C29_UniqueIdsPermutationInvariant ==
    \A f \in Permutations(1..Len(cmds)) :
        UniqueIds(Permuted(cmds, f)) = UniqueIds(cmds)

\* C29 witness: a handler whose second and third commands share an ID that
\* the first does not have was rejected.
C29_Witness ==
    /\ pc = "rejected"
    /\ Len(cmds) = 3
    /\ cmds[2].ID = cmds[3].ID
    /\ cmds[1].ID # cmds[2].ID

====
